---- MODULE Spec2Model ----
(***************************************************************************)
(* Model of src/main.py: parse() reads a Swyftx trading log line by line   *)
(* into transaction records, process() groups the records by asset, sorts  *)
(* them by (date, action) and matches every Sell against the open Buy lots *)
(* of its asset, highest price first.                                      *)
(*                                                                         *)
(* Arithmetic: amounts and prices are exact integer multiples of a unit.   *)
(* The source converts them with float(); IEEE-754 rounding is not part of *)
(* this model.  Dates are minute timestamps (integers).                    *)
(***************************************************************************)
EXTENDS Integers, Sequences, FiniteSets, TLC

VARIABLES
    pc,                 \* position of the program
    err,                \* the exception that ended the run, "" if none
    file,               \* the lines of the log file
    pos,                \* parse: index of `line` in file
    amount_idx,         \* parse: rotating 0/1/2 counter of quantity lines
    bound,              \* parse: names of the locals that are assigned
    cur,                \* parse: values of the locals action .. fee
    data,               \* parse: the list `data` of tx_record
    frame,              \* the DataFrame (parse's result, process's `data`)
    assets,             \* process: data["asset"].unique()
    ai,                 \* process: index of `asset` in assets
    asset_data,         \* process: rows of data.loc[asset]
    row,                \* process: index of the row (1-based)
    max_heap,           \* process: the heap of (-price, amount)
    amount,             \* process: local amount of the current row
    price,              \* process: local price of the current row
    acc_amount_bought,  \* process: local
    acc_total_bought,   \* process: local
    profit,             \* process: local
    profits,            \* process: the dict, as its (key, value) items in order
    result,             \* __main__: the frame process() returned
    total,              \* __main__: profits["profit"].sum()
    lots0,              \* history: max_heap when the current Sell began
    bought,             \* history: Buy amounts handled for the current asset
    consumed,           \* history: sum of amount_needed over the asset's pops
    poplog,             \* history: the pops of the current Sell
    sells,              \* history: every Sell handled, with the ledger it met
    handled,            \* history: number of rows handled by the row loop
    alt_heap,           \* ledger of the variant `acc_amount_bought += amount_needed`
    alt_out             \* the variant's outcome of the latest Sell

vars == <<pc, err, file, pos, amount_idx, bound, cur, data, frame, assets, ai,
          asset_data, row, max_heap, amount, price, acc_amount_bought,
          acc_total_bought, profit, profits, result, total, lots0, bought,
          consumed, poplog, sells, handled, alt_heap, alt_out>>

parseVars == <<file, pos, amount_idx, bound, cur, data>>
loopVars == <<amount, price, acc_amount_bought, acc_total_bought, profit>>
histVars == <<lots0, bought, consumed, poplog, sells, handled, alt_heap, alt_out>>

(***************************************************************************)
(* Bounds of the model's inputs.                                           *)
(***************************************************************************)
\* the number of transactions of a log
MaxRecs == 2
Assets == {"BTC", "ETH"}
Actions == {"Buy", "Sell"}
Amounts == 0..2
Prices == 1..2
Dates == 1..2

Min(a, b) == IF a < b THEN a ELSE b

RECURSIVE SelectSeqBy(_, _, _)
\* the rows of s whose field f equals v, in their order
SelectSeqBy(s, f, v) ==
    IF s = <<>> THEN <<>>
    ELSE IF Head(s)[f] = v THEN <<Head(s)>> \o SelectSeqBy(Tail(s), f, v)
    ELSE SelectSeqBy(Tail(s), f, v)

(***************************************************************************)
(* The log file.  A line is what the three regular expressions see in it.  *)
(***************************************************************************)
MarketLine(action, amt, asset) == <<"market", action, amt, asset>>
QuantityLine(amt) == <<"quantity", amt>>
DateLine(d) == <<"date", d>>
OtherLine == <<"other">>

\* _RegExLib(line): which expression matches (market, quantity and date
\* exclude each other: they anchor on "Market ", a digit and "Completed").
RegExLib(line) ==
    [market |-> line[1] = "market",
     quantity |-> line[1] = "quantity",
     date |-> line[1] = "date"]

Txs == [action : Actions, asset : Assets, amount : Amounts, price : Prices,
        date : Dates]

\* the five lines of one transaction group: market, price, total, fee, date
Render(tx) ==
    << MarketLine(tx.action, tx.amount, tx.asset),
       QuantityLine(tx.price),
       QuantityLine(tx.amount * tx.price),
       QuantityLine(0),
       DateLine(tx.date) >>

RECURSIVE RenderAll(_)
RenderAll(txs) ==
    IF txs = <<>> THEN <<>> ELSE Render(Head(txs)) \o RenderAll(Tail(txs))

Tx(action, asset, amt, p, d) ==
    [action |-> action, asset |-> asset, amount |-> amt, price |-> p, date |-> d]

\* a log of three transactions: buys (price 10, amount 5) and (price 20,
\* amount 3), then a sell (amount 4, price 15)
ExampleTxs ==
    << Tx("Buy", "BTC", 5, 10, 1), Tx("Buy", "BTC", 3, 20, 1),
       Tx("Sell", "BTC", 4, 15, 2) >>

TxSeqs == UNION {[1..n -> Txs] : n \in 0..MaxRecs}

Files == {RenderAll(txs) : txs \in TxSeqs \cup {ExampleTxs}} \cup {<<OtherLine>>}

(***************************************************************************)
(* pandas and heapq, as far as main.py uses them.                          *)
(***************************************************************************)
RecordNames == {"action", "amount", "asset", "price", "total", "fee"}

Columns == {"action", "amount", "asset", "price", "total", "fee", "date"}

\* pd.DataFrame(list of dicts): the columns are the keys of the dicts, so a
\* frame made of no dict has no column at all
DataFrame(recs) ==
    [columns |-> IF recs = <<>> THEN {} ELSE Columns, rows |-> recs]

RECURSIVE Unique(_, _)
\* Series.unique(): the values in order of first appearance
Unique(s, seen) ==
    IF s = <<>> THEN <<>>
    ELSE IF Head(s).asset \in seen THEN Unique(Tail(s), seen)
    ELSE <<Head(s).asset>> \o Unique(Tail(s), seen \cup {Head(s).asset})

\* code of the first differing character: "B" < "E", "B" < "S"
Ord(s) == CASE s = "BTC" -> 66 [] s = "Buy" -> 66 [] s = "ETH" -> 69
            [] s = "Sell" -> 83

\* sort_index(): the default quicksort is not stable, any arrangement with
\* the index in ascending order can come out
IndexSorted(rows) ==
    \A i, j \in DOMAIN rows : i < j => Ord(rows[i].asset) <= Ord(rows[j].asset)

SortIndexOutcomes(rows) ==
    {r \in {[i \in DOMAIN rows |-> rows[p[i]]] : p \in Permutations(DOMAIN rows)} :
        IndexSorted(r)}

\* a sort by date alone
KeyLessDateOnly(r1, r2) == r1.date < r2.date

\* the order of sort_values(by=['date', 'action'])
KeyLess(r1, r2) ==
    \/ r1.date < r2.date
    \/ r1.date = r2.date /\ Ord(r1.action) < Ord(r2.action)

RECURSIVE InsertSorted(_, _)
\* r goes after every row that is not greater: the sort is stable
InsertSorted(r, sorted) ==
    IF sorted = <<>> THEN <<r>>
    ELSE IF KeyLess(r, Head(sorted)) THEN <<r>> \o sorted
    ELSE <<Head(sorted)>> \o InsertSorted(r, Tail(sorted))

RECURSIVE SortValues(_)
SortValues(rows) ==
    IF rows = <<>> THEN <<>>
    ELSE InsertSorted(rows[Len(rows)], SortValues(SubSeq(rows, 1, Len(rows) - 1)))

\* data.loc[asset]: the rows with that index label
Loc(rows, asset) == SelectSeqBy(rows, "asset", asset)

\* every label taken for a frame
ShapeLenFrame(rows) == 2

\* len(asset_data.shape): a label with one row yields a Series
ShapeLen(rows) == IF Len(rows) = 1 THEN 1 ELSE 2

\* the heap keyed on the price instead of its negation
TupleLessPrice(a, b) == b[1] < a[1] \/ (a[1] = b[1] /\ a[2] < b[2])

\* tuple order of the heap entries (-price, amount)
TupleLess(a, b) == a[1] < b[1] \/ (a[1] = b[1] /\ a[2] < b[2])

RECURSIVE HeapPush(_, _)
\* the heap is kept as the ascending list of its entries
HeapPush(heap, e) ==
    IF heap = <<>> THEN <<e>>
    ELSE IF TupleLess(e, Head(heap)) THEN <<e>> \o heap
    ELSE <<Head(heap)>> \o HeapPush(Tail(heap), e)

HeapTop(heap) == Head(heap)
HeapPopped(heap) == Tail(heap)

RECURSIVE DictAdd(_, _, _)
\* profits[asset] += profit
DictAdd(d, k, v) ==
    IF d = <<>> THEN << <<k, v>> >>
    ELSE IF Head(d)[1] = k THEN << <<k, Head(d)[2] + v>> >> \o Tail(d)
    ELSE <<Head(d)>> \o DictAdd(Tail(d), k, v)

\* a list of (asset, profit) pairs instead of a dict
DictAppend(d, k, v) == Append(d, <<k, v>>)

\* profits[asset] = profit on the dict's items
RECURSIVE DictSet(_, _, _)
DictSet(d, k, v) ==
    IF d = <<>> THEN << <<k, v>> >>
    ELSE IF Head(d)[1] = k THEN << <<k, v>> >> \o Tail(d)
    ELSE <<Head(d)>> \o DictSet(Tail(d), k, v)

DictKeys(d) == {d[i][1] : i \in DOMAIN d}
DictGet(d, k) == (CHOOSE i \in DOMAIN d : d[i][1] = k)
DictValue(d, k) == d[DictGet(d, k)][2]

(***************************************************************************)
(* The consume loop of a Sell (main.py 56-68).                             *)
(***************************************************************************)
\* the loop leaving the last lot alone
LoopCondLastLot(acc, amt, heap) == acc < amt /\ Len(heap) > 1

LoopCond(acc, amt, heap) == acc < amt /\ Len(heap) > 0

AmountNeeded(amt, acc, amount_bought) == Min(amt - acc, amount_bought)

\* acc_amount_bought -= amount_bought
AccNextSlip(acc, amount_bought, amount_needed) == acc - amount_bought

\* line 61
AccNext(acc, amount_bought, amount_needed) == acc + amount_bought

\* the remainder never pushed back
PushRemainNever(heap, price_bought, amount_remain) == heap

\* amount_remain >= 0
PushRemainAlways(heap, price_bought, amount_remain) ==
    IF amount_remain >= 0 THEN HeapPush(heap, <<-price_bought, amount_remain>>)
    ELSE heap

\* lines 66-68
PushRemain(heap, price_bought, amount_remain) ==
    IF amount_remain > 0 THEN HeapPush(heap, <<-price_bought, amount_remain>>)
    ELSE heap

\* the variant of line 61 that is compared with the source:
\* acc_amount_bought += amount_needed
AccNextNeeded(acc, amount_bought, amount_needed) == acc + amount_needed

RECURSIVE AltLoop(_, _, _, _, _)
\* the whole loop of the variant: [heap, cost, log]
AltLoop(heap, amt, acc, tot, log) ==
    IF ~LoopCond(acc, amt, heap) THEN [heap |-> heap, cost |-> tot, log |-> log]
    ELSE LET price_bought == -HeapTop(heap)[1]
             amount_bought == HeapTop(heap)[2]
             amount_needed == AmountNeeded(amt, acc, amount_bought)
             amount_remain == amount_bought - amount_needed
         IN AltLoop(PushRemain(HeapPopped(heap), price_bought, amount_remain),
                    amt,
                    AccNextNeeded(acc, amount_bought, amount_needed),
                    tot + price_bought * amount_needed,
                    Append(log, <<price_bought, amount_bought, amount_needed,
                                  amount_remain>>))

NoOut == [heap |-> <<>>, cost |-> 0, log |-> <<>>]

(***************************************************************************)
(* Initial states.  MainInit: the program starts on some log file.         *)
(* Init: process() is entered with the frame parse() made of a log.        *)
(***************************************************************************)
ProcessVarsInit ==
    /\ err = ""
    /\ assets = <<>>
    /\ ai = 0
    /\ asset_data = <<>>
    /\ row = 0
    /\ max_heap = <<>>
    /\ amount = 0
    /\ price = 0
    /\ acc_amount_bought = 0
    /\ acc_total_bought = 0
    /\ profit = 0
    /\ profits = <<>>
    /\ result = <<>>
    /\ total = 0
    /\ lots0 = <<>>
    /\ bought = 0
    /\ consumed = 0
    /\ poplog = <<>>
    /\ sells = <<>>
    /\ handled = 0
    /\ alt_heap = <<>>
    /\ alt_out = NoOut

NoLocals == [action |-> "", amount |-> 0, asset |-> "", price |-> 0,
             total |-> 0, fee |-> 0]

MainInit ==
    /\ file \in Files
    /\ pc = "open"
    /\ pos = 0
    /\ amount_idx = 0
    /\ bound = {}
    /\ cur = NoLocals
    /\ data = <<>>
    /\ frame = DataFrame(<<>>)
    /\ ProcessVarsInit

\* the tx_record parse() appends for the group Render(tx)
TxRecord(tx) ==
    [action |-> tx.action, amount |-> tx.amount, asset |-> tx.asset,
     price |-> tx.price, total |-> tx.amount * tx.price, fee |-> 0,
     date |-> tx.date]

TxRecords(txs) == [i \in DOMAIN txs |-> TxRecord(txs[i])]

\* the state in which parse() hands its frame to process()
Parsed(f, recs) ==
    /\ file = f
    /\ pos = Len(f) + 1
    /\ amount_idx = 0
    /\ bound = IF recs = <<>> THEN {} ELSE RecordNames
    /\ cur = IF recs = <<>> THEN NoLocals
             ELSE [n \in RecordNames |-> recs[Len(recs)][n]]
    /\ data = recs
    /\ frame = DataFrame(recs)

Init ==
    /\ pc = "process"
    /\ \/ \E txs \in TxSeqs \cup {ExampleTxs} : Parsed(RenderAll(txs), TxRecords(txs))
       \/ Parsed(<<OtherLine>>, <<>>)
    /\ ProcessVarsInit

Raise(e) == pc' = "raised" /\ err' = e

(***************************************************************************)
(* parse(tx_file)                                                          *)
(***************************************************************************)
\* lines 78-81: open the file, read the first line
ParseOpen ==
    /\ pc = "open"
    /\ IF file = <<>>
       THEN Raise("StopIteration") /\ UNCHANGED <<pos, amount_idx>>
       ELSE pc' = "parse" /\ pos' = 1 /\ amount_idx' = 0 /\ UNCHANGED err
    /\ UNCHANGED <<file, bound, cur, data, frame, assets, ai, asset_data, row,
                   max_heap, profits, result, total>>
    /\ UNCHANGED loopVars
    /\ UNCHANGED histVars

\* lines 82-117: one turn of `while line`
ParseLine ==
    /\ pc = "parse"
    /\ pos <= Len(file)
    /\ LET line == file[pos]
           reg_match == RegExLib(line)
       IN CASE reg_match.market ->
                 /\ cur' = [cur EXCEPT !.action = line[2], !.amount = line[3],
                                       !.asset = line[4]]
                 /\ bound' = bound \cup {"action", "amount", "asset"}
                 /\ pos' = pos + 1
                 /\ UNCHANGED <<pc, err, amount_idx, data>>
            [] reg_match.quantity ->
                 /\ cur' = CASE amount_idx = 0 -> [cur EXCEPT !.price = line[2]]
                             [] amount_idx = 1 -> [cur EXCEPT !.total = line[2]]
                             [] OTHER -> [cur EXCEPT !.fee = line[2]]
                 /\ bound' = bound \cup
                       {CASE amount_idx = 0 -> "price" [] amount_idx = 1 -> "total"
                          [] OTHER -> "fee"}
                 /\ amount_idx' = (amount_idx + 1) % 3
                 /\ pos' = pos + 1
                 /\ UNCHANGED <<pc, err, data>>
            [] reg_match.date ->
                 IF RecordNames \subseteq bound
                 THEN /\ data' = Append(data,
                             [action |-> cur.action, amount |-> cur.amount,
                              asset |-> cur.asset, price |-> cur.price,
                              total |-> cur.total, fee |-> cur.fee,
                              date |-> line[2]])
                      /\ pos' = pos + 1
                      /\ UNCHANGED <<pc, err, amount_idx, bound, cur>>
                 ELSE /\ Raise("NameError")
                      /\ UNCHANGED <<pos, amount_idx, bound, cur, data>>
            [] OTHER ->
                 /\ pos' = pos + 1
                 /\ UNCHANGED <<pc, err, amount_idx, bound, cur, data>>
    /\ UNCHANGED <<file, frame, assets, ai, asset_data, row, max_heap, profits,
                   result, total>>
    /\ UNCHANGED loopVars
    /\ UNCHANGED histVars

\* lines 118-120 and 133-134: the list becomes a frame, handed to process()
ParseEnd ==
    /\ pc = "parse"
    /\ pos > Len(file)
    /\ frame' = DataFrame(data)
    /\ pc' = "process"
    /\ UNCHANGED <<err, assets, ai, asset_data, row, max_heap, profits, result,
                   total>>
    /\ UNCHANGED parseVars
    /\ UNCHANGED loopVars
    /\ UNCHANGED histVars

(***************************************************************************)
(* process(data)                                                           *)
(***************************************************************************)
\* lines 26-32: the unique assets, the two sorts, the empty dict
ProcessStart ==
    /\ pc = "process"
    /\ IF "asset" \notin frame.columns
       THEN /\ Raise("KeyError")
            /\ UNCHANGED <<frame, assets, ai, profits>>
       ELSE /\ assets' = Unique(frame.rows, {})
            /\ \E indexed \in SortIndexOutcomes(frame.rows) :
                  frame' = [frame EXCEPT !.rows = SortValues(indexed)]
            /\ profits' = <<>>
            /\ ai' = 1
            /\ pc' = "asset"
            /\ UNCHANGED err
    /\ UNCHANGED <<asset_data, row, max_heap, result, total>>
    /\ UNCHANGED parseVars
    /\ UNCHANGED loopVars
    /\ UNCHANGED histVars

\* lines 33-41: the next asset; an asset with a single row is skipped
AssetStep ==
    /\ pc = "asset"
    /\ ai <= Len(assets)
    /\ LET rows == Loc(frame.rows, assets[ai])
       IN /\ asset_data' = rows
          /\ IF ShapeLen(rows) = 1
             THEN /\ ai' = ai + 1
                  /\ UNCHANGED <<pc, row, max_heap, lots0, bought, consumed,
                                 poplog, alt_heap, alt_out>>
             ELSE /\ max_heap' = <<>>
                  /\ row' = 1
                  /\ pc' = "row"
                  /\ lots0' = <<>>
                  /\ bought' = 0
                  /\ consumed' = 0
                  /\ poplog' = <<>>
                  /\ alt_heap' = <<>>
                  /\ alt_out' = NoOut
                  /\ UNCHANGED ai
    /\ UNCHANGED <<err, frame, assets, profits, result, total, sells, handled>>
    /\ UNCHANGED parseVars
    /\ UNCHANGED loopVars

\* lines 42-55: read the row; a Buy is pushed, a Sell enters the loop
RowStep ==
    /\ pc = "row"
    /\ row <= Len(asset_data)
    /\ LET action == asset_data[row].action
       IN /\ amount' = asset_data[row].amount
          /\ price' = asset_data[row].price
          /\ IF action = "Buy"
             THEN /\ max_heap' = HeapPush(max_heap, <<-price', amount'>>)
                  /\ row' = row + 1
                  /\ bought' = bought + amount'
                  /\ alt_heap' = HeapPush(alt_heap, <<-price', amount'>>)
                  /\ handled' = handled + 1
                  /\ UNCHANGED <<pc, acc_amount_bought, acc_total_bought, lots0,
                                 poplog, alt_out>>
             ELSE /\ acc_amount_bought' = 0
                  /\ acc_total_bought' = 0
                  /\ pc' = "consume"
                  /\ lots0' = max_heap
                  /\ poplog' = <<>>
                  /\ UNCHANGED <<max_heap, row, bought, handled, alt_heap,
                                 alt_out>>
    /\ UNCHANGED <<err, frame, assets, ai, asset_data, profit, profits, result,
                   total, consumed, sells>>
    /\ UNCHANGED parseVars

\* lines 56-68: one turn of the while loop
ConsumeStep ==
    /\ pc = "consume"
    /\ LoopCond(acc_amount_bought, amount, max_heap)
    /\ LET price_bought == -HeapTop(max_heap)[1]
           amount_bought == HeapTop(max_heap)[2]
           amount_needed == AmountNeeded(amount, acc_amount_bought, amount_bought)
           amount_remain == amount_bought - amount_needed
       IN /\ acc_total_bought' = acc_total_bought + price_bought * amount_needed
          /\ acc_amount_bought' = AccNext(acc_amount_bought, amount_bought,
                                          amount_needed)
          /\ max_heap' = PushRemain(HeapPopped(max_heap), price_bought,
                                    amount_remain)
          /\ consumed' = consumed + amount_needed
          /\ poplog' = Append(poplog, <<price_bought, amount_bought,
                                        amount_needed, amount_remain>>)
    /\ UNCHANGED <<pc, err, frame, assets, ai, asset_data, row, amount, price,
                   profit, profits, result, total, lots0, bought, sells, handled,
                   alt_heap, alt_out>>
    /\ UNCHANGED parseVars

\* line 70
Profit(amt, p, cost) == (amt * p) - cost

\* lines 70-72: the loop is over, the profit of the Sell is stored
SellDone ==
    /\ pc = "consume"
    /\ ~LoopCond(acc_amount_bought, amount, max_heap)
    /\ profit' = Profit(amount, price, acc_total_bought)
    /\ profits' = DictSet(profits, assets[ai], profit')
    /\ row' = row + 1
    /\ pc' = "row"
    /\ alt_out' = AltLoop(alt_heap, amount, 0, 0, <<>>)
    /\ alt_heap' = alt_out'.heap
    /\ sells' = Append(sells, [asset |-> assets[ai], amount |-> amount,
                               price |-> price, lots |-> lots0])
    /\ handled' = handled + 1
    /\ UNCHANGED <<err, frame, assets, ai, asset_data, max_heap, amount, price,
                   acc_amount_bought, acc_total_bought, result, total, lots0,
                   bought, consumed, poplog>>
    /\ UNCHANGED parseVars

\* line 42: the rows of the asset are exhausted
EndRows ==
    /\ pc = "row"
    /\ row > Len(asset_data)
    /\ ai' = ai + 1
    /\ pc' = "asset"
    /\ UNCHANGED <<err, frame, assets, asset_data, row, max_heap, profits,
                   result, total>>
    /\ UNCHANGED parseVars
    /\ UNCHANGED loopVars
    /\ UNCHANGED histVars

\* lines 74-75: the dict becomes the frame that is returned
Return ==
    /\ pc = "asset"
    /\ ai > Len(assets)
    /\ result' = [i \in DOMAIN profits |->
                    [asset |-> profits[i][1], profit |-> profits[i][2]]]
    /\ pc' = "main"
    /\ UNCHANGED <<err, frame, assets, ai, asset_data, row, max_heap, profits,
                   total>>
    /\ UNCHANGED parseVars
    /\ UNCHANGED loopVars
    /\ UNCHANGED histVars

RECURSIVE ColumnSum(_)
ColumnSum(rows) ==
    IF rows = <<>> THEN 0 ELSE Head(rows).profit + ColumnSum(Tail(rows))

\* lines 135-136: profits["profit"].sum()
MainTotal ==
    /\ pc = "main"
    /\ total' = ColumnSum(result)
    /\ pc' = "done"
    /\ UNCHANGED <<err, frame, assets, ai, asset_data, row, max_heap, profits,
                   result>>
    /\ UNCHANGED parseVars
    /\ UNCHANGED loopVars
    /\ UNCHANGED histVars

\* process(data), then the total printed by __main__
Next ==
    \/ ProcessStart
    \/ AssetStep
    \/ RowStep
    \/ ConsumeStep
    \/ SellDone
    \/ EndRows
    \/ Return
    \/ MainTotal

\* the whole program: parse(tx_file), then process(data)
MainNext ==
    \/ ParseOpen
    \/ ParseLine
    \/ ParseEnd
    \/ Next

Spec == Init /\ [][Next]_vars

MainSpec == MainInit /\ [][MainNext]_vars

\* parse() hands to process() exactly the states Init describes
ParseYieldsInit ==
    pc = "process" =>
        LET txs == [i \in DOMAIN data |->
                      Tx(data[i].action, data[i].asset, data[i].amount,
                         data[i].price, data[i].date)]
        IN /\ Parsed(file, data)
           /\ ProcessVarsInit
           /\ \/ txs \in TxSeqs \cup {ExampleTxs} /\ file = RenderAll(txs)
                 /\ data = TxRecords(txs)
              \/ file = <<OtherLine>> /\ data = <<>>

(***************************************************************************)
(* Properties.                                                             *)
(***************************************************************************)
RECURSIVE HeapSum(_)
\* total amount of the lots
HeapSum(heap) == IF heap = <<>> THEN 0 ELSE Head(heap)[2] + HeapSum(Tail(heap))

RECURSIVE LotsCost(_)
\* sum of price * amount over the lots
LotsCost(heap) ==
    IF heap = <<>> THEN 0 ELSE (-Head(heap)[1]) * Head(heap)[2] + LotsCost(Tail(heap))

RemoveAt(s, i) == SubSeq(s, 1, i - 1) \o SubSeq(s, i + 1, Len(s))

RECURSIVE GreedyCost(_, _)
\* the reference: lots in descending price order, min(still needed, lot
\* amount) from each, until the need is matched or no lot is left
GreedyCost(lots, need) ==
    IF lots = <<>> \/ need <= 0 THEN 0
    ELSE LET i == CHOOSE i \in DOMAIN lots :
                     \A j \in DOMAIN lots : -lots[i][1] >= -lots[j][1]
             q == Min(need, lots[i][2])
         IN (-lots[i][1]) * q + GreedyCost(RemoveAt(lots, i), need - q)

\* the Sell of row - 1 has just been completed
JustSold == pc = "row" /\ row > 1 /\ asset_data[row - 1].action = "Sell"

\* the records of the input, as parsed, of one asset
InputOf(a) == SelectSeqBy(data, "asset", a)

HasSell(a) == \E i \in DOMAIN data : data[i].asset = a /\ data[i].action = "Sell"

SellsOf(a) == SelectSeqBy(sells, "asset", a)

SellProfit(s) == s.amount * s.price - GreedyCost(s.lots, s.amount)

RECURSIVE SumSellProfit(_)
SumSellProfit(ss) ==
    IF ss = <<>> THEN 0 ELSE SellProfit(Head(ss)) + SumSellProfit(Tail(ss))

Last(s) == s[Len(s)]

EntryCount(a) == Cardinality({i \in DOMAIN result : result[i].asset = a})

\* C1: the cost basis of every Sell is the reference greedy value and its
\* profit is amount * price minus that value; on the worked example the cost
\* basis is 70, the profit -10 and the one open lot left is (price 10,
\* amount 4).
GreedyCostBasis ==
    JustSold =>
        /\ acc_total_bought = GreedyCost(lots0, amount)
        /\ profit = amount * price - GreedyCost(lots0, amount)
        /\ file = RenderAll(ExampleTxs) =>
              /\ acc_total_bought = 70
              /\ profit = -10
              /\ max_heap = << <<-10, 4>> >>

GreedyExampleSold ==
    /\ file = RenderAll(ExampleTxs)
    /\ JustSold
    /\ Len(poplog) = 2
    /\ Len(lots0) = 2

\* C2: while an asset is processed, the amounts of the lots in its heap add
\* up to the amount bought so far minus the sum of amount_needed over the
\* pops so far.
LedgerConservation ==
    pc \in {"row", "consume"} => HeapSum(max_heap) = bought - consumed

PartlyConsumedLedger ==
    /\ JustSold
    /\ consumed > 0
    /\ HeapSum(max_heap) > 0
    /\ HeapSum(max_heap) < bought

\* C3: the entry of an asset is the profit of its most recently processed
\* Sell alone, which at the end is its last Sell row in sorted order; it is
\* not the sum over its sells.
LastSellWins ==
    /\ \A a \in DictKeys(profits) :
          /\ SellsOf(a) # <<>>
          /\ DictValue(profits, a) = SellProfit(Last(SellsOf(a)))
    /\ \A a \in Assets : SellsOf(a) # <<>> => a \in DictKeys(profits)
    /\ pc = "done" =>
          \A i \in DOMAIN result :
             LET rows == Loc(frame.rows, result[i].asset)
                 k == CHOOSE k \in DOMAIN rows :
                         /\ rows[k].action = "Sell"
                         /\ \A m \in DOMAIN rows : m > k => rows[m].action = "Buy"
                 s == Last(SellsOf(result[i].asset))
             IN /\ s.amount = rows[k].amount
                /\ s.price = rows[k].price
                /\ result[i].profit = SellProfit(s)

EarlierSellForgotten ==
    /\ pc = "done"
    /\ \E i \in DOMAIN result :
          /\ Len(SellsOf(result[i].asset)) > 1
          /\ result[i].profit # SumSellProfit(SellsOf(result[i].asset))

\* C4: a Sell that meets an empty ledger has cost basis 0 and profit
\* amount * price; a Sell that meets lots totalling less than its amount has
\* the cost of all of them as cost basis, empties the ledger and has profit
\* amount * price minus that cost.
ShortLedgerSell ==
    JustSold =>
        /\ lots0 = <<>> => acc_total_bought = 0 /\ profit = amount * price
        /\ HeapSum(lots0) < amount =>
              /\ acc_total_bought = LotsCost(lots0)
              /\ max_heap = <<>>
              /\ profit = amount * price - LotsCost(lots0)

ShortLedgerSold ==
    /\ JustSold
    /\ lots0 # <<>>
    /\ HeapSum(lots0) > 0
    /\ HeapSum(lots0) < amount

\* C5: an asset with exactly one record in the input never gets an entry.
SingleRecordNoEntry ==
    \A a \in Assets :
        Len(InputOf(a)) = 1 =>
            /\ a \notin DictKeys(profits)
            /\ EntryCount(a) = 0

SingleSellSkipped ==
    /\ pc = "done"
    /\ \E a \in Assets : Len(InputOf(a)) = 1 /\ HasSell(a)

RECURSIVE BoughtUpTo(_, _)
\* the amount of the Buy records among recs dated d or earlier
BoughtUpTo(recs, d) ==
    IF recs = <<>> THEN 0
    ELSE (IF Head(recs).action = "Buy" /\ Head(recs).date <= d
          THEN Head(recs).amount ELSE 0) + BoughtUpTo(Tail(recs), d)

\* C6: the rows of an asset are handled in ascending date order, and of two
\* rows with the same date a Buy is never after a Sell; so when a Sell is
\* handled, exactly the Buys of the input dated no later than it have been
\* pushed.
DateThenBuyFirst ==
    pc \in {"row", "consume"} =>
        /\ \A i, j \in DOMAIN asset_data :
              i < j =>
                 /\ asset_data[i].date <= asset_data[j].date
                 /\ asset_data[i].date = asset_data[j].date =>
                       ~(asset_data[i].action = "Sell" /\ asset_data[j].action = "Buy")
        /\ pc = "consume" =>
              bought = BoughtUpTo(InputOf(assets[ai]), asset_data[row].date)

SameInstantBuyConsumed ==
    /\ JustSold
    /\ Len(poplog) = 1
    /\ poplog[1][3] > 0
    /\ \E i, j \in DOMAIN data :
          /\ i < j
          /\ data[i].action = "Sell" /\ data[j].action = "Buy"
          /\ data[i].asset = assets[ai] /\ data[j].asset = assets[ai]
          /\ data[i].date = data[j].date
          /\ \A k \in DOMAIN data :
                data[k].asset = assets[ai] /\ data[k].action = "Buy" => k = j

\* C7: on an input with no transaction the run ends normally with an empty
\* result and a total of 0.
ZeroTransactionsRoundTrip ==
    data = <<>> /\ pc \in {"process", "asset", "main", "done", "raised"} =>
        /\ pc # "raised"
        /\ pc = "done" => result = <<>> /\ total = 0

\* C8, as claimed: every asset with at least two records has exactly one
\* entry in the result.
EntryForEveryMultiRecordAsset ==
    pc = "done" =>
        \A a \in Assets : Len(InputOf(a)) >= 2 => EntryCount(a) = 1

\* C8, amended: an asset has exactly one entry if it has at least two
\* records of which one is a Sell, and no entry otherwise.
EntryIffMultiRecordWithSell ==
    pc = "done" =>
        \A a \in Assets :
            EntryCount(a) = IF Len(InputOf(a)) >= 2 /\ HasSell(a) THEN 1 ELSE 0

TwoSellsOneEntry ==
    /\ pc = "done"
    /\ \E a \in Assets : Len(SellsOf(a)) > 1 /\ EntryCount(a) = 1

RowSteps == Len(frame.rows) + 2

\* the steps one asset can take: AssetStep, its rows, EndRows
AssetSteps == 2 + Len(frame.rows) * RowSteps

\* an upper bound of the number of steps process() has left
StepsLeft ==
    CASE pc = "process" -> 3 + Len(frame.rows) * AssetSteps
      [] pc = "asset" -> 2 + (Len(assets) + 1 - ai) * AssetSteps
      [] pc = "row" ->
            3 + (Len(assets) - ai) * AssetSteps
              + (Len(asset_data) + 1 - row) * RowSteps
      [] pc = "consume" ->
            4 + (Len(assets) - ai) * AssetSteps
              + (Len(asset_data) - row) * RowSteps
              + (IF LoopCond(acc_amount_bought, amount, max_heap)
                 THEN Len(max_heap) ELSE 0)
      [] pc = "main" -> 1
      [] OTHER -> 0

PopBound ==
    pc = "consume" \/ JustSold =>
        /\ Len(poplog) <= Len(lots0)
        /\ \A i \in DOMAIN poplog : poplog[i][4] > 0 => i = Len(poplog)

RECURSIVE RowsOfFrames(_)
\* the number of rows of the assets that are not skipped
RowsOfFrames(as) ==
    IF as = <<>> THEN 0
    ELSE (IF ShapeLen(Loc(frame.rows, Head(as))) = 1 THEN 0
          ELSE Len(Loc(frame.rows, Head(as)))) + RowsOfFrames(Tail(as))

AllHandled == ai > Len(assets) /\ handled = RowsOfFrames(assets)

\* C10: a Sell pops at most as many lots as were open when it began and a
\* lot pushed back is not popped again by the same Sell; every step of
\* process() lowers a bound of the steps left, a step is possible until the
\* run has ended (ProcessStart is guarded by pc alone), and it ends, on a
\* frame with rows, by returning after the row loop has handled every row of
\* every asset it does not skip.
RunsToCompletion ==
    /\ []PopBound
    /\ [][StepsLeft' < StepsLeft]_vars
    /\ [](StepsLeft >= 0)
    /\ [](pc \in {"asset", "row", "consume", "main"} => ENABLED Next)
    /\ [](pc = "raised" => frame.rows = <<>>)
    /\ [](pc = "done" => AllHandled)

\* a Sell has popped a lot of amount 0 and ended still short of its amount
ZeroLotPopped ==
    /\ JustSold
    /\ poplog # <<>>
    /\ poplog[1][2] = 0
    /\ acc_amount_bought < amount

====
